---- MODULE Spec2Model ----
(***************************************************************************)
(* State-machine model of cleo/graphics.py: the DataLevels colour/level    *)
(* configuration object and its subclass Map.                              *)
(*                                                                         *)
(* Conventions                                                             *)
(*   - A Python optional is a sequence of length 0 (None) or 1 (a value).  *)
(*   - A numpy array is a record [shape, vals]: vals is the row-major      *)
(*     flattening.  Numbers are integers; NaN is a sentinel.  In a stored  *)
(*     (masked) array the sentinel marks a masked element, which is what   *)
(*     np.ma.masked_invalid / np.ma.fix_invalid make of a NaN.             *)
(*   - Slopes and shading factors are fixed-point, in thousandths.         *)
(*   - A sequence of levels is a record [den, nums]: level i is the        *)
(*     rational nums[i] / den (np.linspace divides by nlevels - 1).        *)
(***************************************************************************)
EXTENDS Integers, Sequences, FiniteSets, TLC

(* ------------------------------ bounds --------------------------------- *)
\* user-supplied vmin / vmax are drawn from 0..MaxVal
MaxVal == 2
\* user-supplied nlevels are drawn from 1..MaxNLevels
MaxNLevels == 2
\* the overlay lists hold at most this many entries
MaxOverlays == 2
\* side of the large map grid used for the aspect-ratio tolerance
BigN == 32

(* --------------------------- program constants ------------------------- *)
\* np.NaN (an invalid value); also the mark of a masked element
NaN == -9999
\* nlevels = 8 when the user gave none
DefaultNLevels == 8
\* 0.4, the amplitude of the shading formula, in thousandths
ShadeAmp == 400
\* the default relief_factor 0.7, in thousandths
DefaultRelief == 700
\* the number of levels from which the colorbar is continuous
ContinuousFrom == 60

(* ------------------------------ helpers -------------------------------- *)
None == <<>>

Some(x) == <<x>>

Abs(x) == IF x < 0 THEN -x ELSE x

Max2(a, b) == IF a >= b THEN a ELSE b

Min2(a, b) == IF a <= b THEN a ELSE b

RECURSIVE Prod(_)
Prod(s) == IF s = <<>> THEN 1 ELSE Head(s) * Prod(Tail(s))

Arr(shape, vals) == [shape |-> shape, vals |-> vals]

\* an array of the given shape filled with v (np.ma.zeros is Full(shape, 0))
Full(shape, v) == Arr(shape, [i \in 1..Prod(shape) |-> v])

\* np.atleast_1d: a scalar becomes a one-element vector
atleast_1d(a) == IF a.shape = <<>> THEN Arr(<<1>>, a.vals) ELSE a

\* np.squeeze: drop the axes of length 1
squeeze(a) == Arr(SelectSeq(a.shape, LAMBDA n : n # 1), a.vals)

\* np.ma.masked_invalid / np.ma.fix_invalid: a NaN becomes a masked element;
\* both are the sentinel, so the values are kept as they are
masked_invalid(a) == Arr(a.shape, [i \in DOMAIN a.vals |->
                         IF a.vals[i] = NaN THEN NaN ELSE a.vals[i]])

ValidVals(a) == {a.vals[i] : i \in DOMAIN a.vals} \ {NaN}

\* np.min / np.max of a masked array: over the unmasked elements; the masked
\* constant (the sentinel) when there is none
np_min(a) ==
  LET S == ValidVals(a)
  IN  IF S = {} THEN NaN ELSE CHOOSE x \in S : \A y \in S : x <= y

np_max(a) ==
  LET S == ValidVals(a)
  IN  IF S = {} THEN NaN ELSE CHOOSE x \in S : \A y \in S : x >= y

\* a comparison with the masked constant is masked, which is false in an if
Gt(a, b) == a # NaN /\ b # NaN /\ a > b

Lt(a, b) == a # NaN /\ b # NaN /\ a < b

\* np.linspace(a, b, n) as exact rationals over the denominator n - 1
linspace(a, b, n) ==
  IF n = 1 THEN [den |-> 1, nums |-> <<a>>]
  ELSE [den |-> n - 1, nums |-> [i \in 1..n |-> a * (n - 1) + (i - 1) * (b - a)]]

(* ------------------------------- state --------------------------------- *)
VARIABLES
  kind,            \* "DataLevels" or "Map": the class of the object
  grid,            \* Map.grid: [ny, nx, dy, dx]; None for a DataLevels
  data,            \* self.data
  _levels,         \* self._levels
  _nlevels,        \* self._nlevels
  _vmin,           \* self._vmin
  _vmax,           \* self._vmax
  _extend,         \* self._extend
  cmap,            \* self.cmap, as its number of colours N
  user_vmin,       \* history: the argument of the last set_vmin call
  user_vmax,       \* history: the argument of the last set_vmax call
  _collections,    \* Map._collections
  _geometries,     \* Map._geometries
  slope,           \* Map.slope
  relief_factor,   \* Map.relief_factor (no such attribute before the first shading)
  _rgb,            \* Map._rgb
  xtick_levs,      \* Map.xtick_levs: the longitudes of the contours
  ytick_levs,      \* Map.ytick_levs: the latitudes of the contours
  xtick_pos,       \* Map.xtick_pos: pixel positions of the x ticks (thousandths)
  xtick_val,       \* Map.xtick_val: labels of the x ticks
  ytick_pos,       \* Map.ytick_pos
  ytick_val,       \* Map.ytick_val
  ll_contour_kw,   \* Map.ll_contour_kw: keywords of the contour lines
  ret              \* the last call: [op, arg, out, err]; arg is kept for
                   \* the calls whose argument the state does not show

vars == <<kind, grid, data, _levels, _nlevels, _vmin, _vmax, _extend, cmap,
          user_vmin, user_vmax, _collections, _geometries, slope, relief_factor, _rgb,
          xtick_levs, ytick_levs, xtick_pos, xtick_val, ytick_pos, ytick_val,
          ll_contour_kw, ret>>

levelVars == <<_levels, _nlevels, _vmin, _vmax, _extend, cmap, user_vmin, user_vmax>>

tickVars == <<xtick_levs, ytick_levs, xtick_pos, xtick_val, ytick_pos, ytick_val,
              ll_contour_kw>>

mapVars == <<_collections, _geometries, slope, relief_factor, _rgb, tickVars>>

Ret(op, arg, out, err) == [op |-> op, arg |-> arg, out |-> out, err |-> err]

(* ------------------------- DataLevels: getters ------------------------- *)
vminOf(vm, d) == IF vm = None THEN np_min(d) ELSE vm[1]

vmaxOf(vx, d) == IF vx = None THEN np_max(d) ELSE vx[1]

\* the vmin property
vmin == vminOf(_vmin, data)

\* the vmax property
vmax == vmaxOf(_vmax, data)

\* the value the levels property returns
levels ==
  IF _levels # None THEN [den |-> 1, nums |-> _levels[1]]
  ELSE linspace(vmin, vmax, IF _nlevels = None THEN DefaultNLevels ELSE _nlevels[1])

\* the extend property, for given settings of _extend, _vmin, _vmax
extendOf(e, vm, vx, d) ==
  IF e = None
  THEN LET maxd == np_max(d)
           mind == np_min(d)
       IN  IF Gt(maxd, vmaxOf(vx, d)) /\ Lt(mind, vminOf(vm, d)) THEN "both"
           ELSE IF Gt(maxd, vmaxOf(vx, d)) THEN "max"
           ELSE IF Lt(mind, vminOf(vm, d)) THEN "min"
           ELSE "neither"
  ELSE e[1]

extend == extendOf(_extend, _vmin, _vmax, data)

\* _vmin and _vmax after the levels property has been read
vminAfterLevels == IF _levels # None THEN Some(Head(_levels[1])) ELSE _vmin

vmaxAfterLevels ==
  IF _levels # None THEN Some(_levels[1][Len(_levels[1])]) ELSE _vmax

(* ------------------------- DataLevels: setters ------------------------- *)
DataLevels_set_data(d) ==
  /\ kind = "DataLevels"
  /\ data' = IF d = None THEN Arr(<<2>>, <<0, 1>>)
             ELSE masked_invalid(atleast_1d(d[1]))
  /\ ret' = Ret("set_data", [data |-> d], None, "none")
  /\ UNCHANGED <<kind, grid, levelVars, mapVars>>

set_levels(l) ==
  /\ _levels' = l
  /\ ret' = Ret("set_levels", None, None, "none")
  /\ UNCHANGED <<kind, grid, data, _nlevels, _vmin, _vmax, _extend, cmap, user_vmin,
               user_vmax, mapVars>>

set_nlevels(n) ==
  /\ _nlevels' = n
  /\ ret' = Ret("set_nlevels", None, None, "none")
  /\ UNCHANGED <<kind, grid, data, _levels, _vmin, _vmax, _extend, cmap, user_vmin,
               user_vmax, mapVars>>

set_vmin(val) ==
  /\ _vmin' = val
  /\ user_vmin' = val
  /\ ret' = Ret("set_vmin", None, None, "none")
  /\ UNCHANGED <<kind, grid, data, _levels, _nlevels, _vmax, _extend, cmap,
                 user_vmax, mapVars>>

set_vmax(val) ==
  /\ _vmax' = val
  /\ user_vmax' = val
  /\ ret' = Ret("set_vmax", None, None, "none")
  /\ UNCHANGED <<kind, grid, data, _levels, _nlevels, _vmin, _extend, cmap,
                 user_vmin, mapVars>>

set_cmap(cm) ==
  /\ cmap' = IF cm # None THEN cm[1] ELSE 1
  /\ ret' = Ret("set_cmap", None, None, "none")
  /\ UNCHANGED <<kind, grid, data, _levels, _nlevels, _vmin, _vmax, _extend, user_vmin,
               user_vmax, mapVars>>

set_extend(e) ==
  /\ _extend' = e
  /\ ret' = Ret("set_extend", None, None, "none")
  /\ UNCHANGED <<kind, grid, data, _levels, _nlevels, _vmin, _vmax, cmap, user_vmin,
               user_vmax, mapVars>>

\* a plausible slip: the levels are left as they are
set_plot_params_keeps_levels(l, n, vm, vx, e) ==
  /\ _vmin' = vm
  /\ user_vmin' = vm
  /\ _vmax' = vx
  /\ user_vmax' = vx
  /\ _nlevels' = n
  /\ _extend' = e
  /\ ret' = Ret("set_plot_params",
                [levels |-> l, nlevels |-> n, vmin |-> vm, vmax |-> vx, extend |-> e],
                None, "none")
  /\ UNCHANGED <<kind, grid, data, _levels, cmap, mapVars>>

\* set_plot_params: set_vmin, set_vmax, set_levels, set_nlevels, set_extend
set_plot_params(l, n, vm, vx, e) ==
  /\ _vmin' = vm
  /\ user_vmin' = vm
  /\ _vmax' = vx
  /\ user_vmax' = vx
  /\ _levels' = l
  /\ _nlevels' = n
  /\ _extend' = e
  /\ ret' = Ret("set_plot_params",
                [levels |-> l, nlevels |-> n, vmin |-> vm, vmax |-> vx, extend |-> e],
                None, "none")
  /\ UNCHANGED <<kind, grid, data, cmap, mapVars>>

(* ---------------------- DataLevels: property reads --------------------- *)
\* reading levels stores the first and last explicit level in _vmin, _vmax
get_levels ==
  /\ _vmin' = vminAfterLevels
  /\ _vmax' = vmaxAfterLevels
  /\ ret' = Ret("levels", None, levels, "none")
  /\ UNCHANGED <<kind, grid, data, _levels, _nlevels, _extend, cmap, user_vmin,
               user_vmax, mapVars>>

get_nlevels ==
  /\ _vmin' = vminAfterLevels
  /\ _vmax' = vmaxAfterLevels
  /\ ret' = Ret("nlevels", None, Len(levels.nums), "none")
  /\ UNCHANGED <<kind, grid, data, _levels, _nlevels, _extend, cmap, user_vmin,
               user_vmax, mapVars>>

get_vmin ==
  /\ ret' = Ret("vmin", None, vmin, "none")
  /\ UNCHANGED <<kind, grid, data, levelVars, mapVars>>

get_vmax ==
  /\ ret' = Ret("vmax", None, vmax, "none")
  /\ UNCHANGED <<kind, grid, data, levelVars, mapVars>>

get_extend ==
  /\ ret' = Ret("extend", None, extend, "none")
  /\ UNCHANGED <<kind, grid, data, levelVars, mapVars>>

\* norm reads levels first (with its side effect) and extend after it; the
\* result is the argument list of cleo.colors.ExtendedNorm plus the warnings
norm ==
  LET l == levels
      e == extendOf(_extend, vminAfterLevels, vmaxAfterLevels, data)
      lmin == CHOOSE x \in {l.nums[i] : i \in DOMAIN l.nums} :
                \A i \in DOMAIN l.nums : x <= l.nums[i]
      lmax == CHOOSE x \in {l.nums[i] : i \in DOMAIN l.nums} :
                \A i \in DOMAIN l.nums : x >= l.nums[i]
      warnMin == e \notin {"both", "min"} /\ Gt(lmin, np_min(data) * l.den)
      warnMax == e \notin {"both", "max"} /\ Lt(lmax, np_max(data) * l.den)
  IN  [boundaries |-> l, ncolors |-> cmap, extend |-> e,
       warnMin |-> warnMin, warnMax |-> warnMax]

get_norm ==
      /\ _vmin' = vminAfterLevels
      /\ _vmax' = vmaxAfterLevels
      /\ ret' = Ret("norm", None, norm, "none")
      /\ UNCHANGED <<kind, grid, data, _levels, _nlevels, _extend, cmap, user_vmin,
               user_vmax, mapVars>>

(* ------------------------- DataLevels: colorbar ------------------------ *)
\* a plausible slip: 60 levels still discrete
Discrete_le(n) == n <= ContinuousFrom

\* self.nlevels < 60
Discrete(n) == n < ContinuousFrom

\* colorbarbase(cax, **kwargs): the arguments of mpl.colorbar.ColorbarBase.
\* nlevels is read first, which reads levels; the norm is self.norm or
\* mpl.colors.Normalize(vmin=self.vmin, vmax=self.vmax); extend is read last.
colorbarbase(kw) ==
  LET n == Len(levels.nums)
      nm == IF Discrete(n)
            THEN [kind |-> "ExtendedNorm", norm |-> norm]
            ELSE [kind |-> "Normalize",
                  norm |-> [vmin |-> vminOf(vminAfterLevels, data),
                            vmax |-> vmaxOf(vmaxAfterLevels, data)]]
      e == extendOf(_extend, vminAfterLevels, vmaxAfterLevels, data)
  IN  /\ _vmin' = vminAfterLevels
      /\ _vmax' = vmaxAfterLevels
      /\ ret' = Ret("colorbarbase", None,
                    [extend |-> e, cmap |-> cmap, norm |-> nm, kwargs |-> kw], "none")
      /\ UNCHANGED <<kind, grid, data, _levels, _nlevels, _extend, cmap, user_vmin,
                     user_vmax, mapVars>>

(* --------------------------- image resampling -------------------------- *)
\* Resampling one axis of length m to length n as PIL's Image.resize does it
\* (0-based positions).  Nearest: the source element under the centre of the
\* target element.
NearestIdx(i, m, n) == ((2 * i + 1) * m) \div (2 * n)

\* Bilinear: the triangle filter; the weight of source k for target i, times
\* 2 * max(m, n).  A target of the same length has weight on source i only.
TriWeight(k, i, m, n) ==
  Max2(0, 2 * Max2(m, n) - Abs((2 * k + 1) * n - (2 * i + 1) * m))

RECURSIVE WSum(_, _, _, _, _, _, _)
\* sum over the sources k..m-1 of weight * value (value 1 when v = <<>>)
WSum(v, base, stride, k, i, m, n) ==
  IF k >= m THEN 0
  ELSE TriWeight(k, i, m, n) * (IF v = <<>> THEN 1 ELSE v[base + k * stride])
       + WSum(v, base, stride, k + 1, i, m, n)

\* one target element of a bilinear pass over the m sources base + k * stride;
\* an invalid source with weight makes the target invalid; the quotient is
\* rounded down to the value grid of the model
Bilinear1(v, base, stride, i, m, n) ==
  IF \E k \in 0..(m - 1) : TriWeight(k, i, m, n) > 0 /\ v[base + k * stride] = NaN
  THEN NaN
  ELSE WSum(v, base, stride, 0, i, m, n) \div WSum(<<>>, base, stride, 0, i, m, n)

\* the array a, whose last two axes are (r, c), resampled to (h, w) on these
\* axes; leading axes are kept
Resize2D(a, h, w, interp) ==
  LET nd == Len(a.shape)
      r == a.shape[nd - 1]
      c == a.shape[nd]
      lead == Prod(SubSeq(a.shape, 1, nd - 2))
      newshape == SubSeq(a.shape, 1, nd - 2) \o <<h, w>>
      \* horizontal pass: lead * r rows of c elements to w elements
      hp == [p \in 1..(lead * r * w) |->
               LET row == (p - 1) \div w
                   j == (p - 1) % w
               IN  Bilinear1(a.vals, row * c + 1, 1, j, c, w)]
      \* vertical pass: lead slabs of r rows to h rows
      vp == [p \in 1..(lead * h * w) |->
               LET slab == (p - 1) \div (h * w)
                   i == ((p - 1) % (h * w)) \div w
                   j == (p - 1) % w
               IN  Bilinear1(hp, slab * r * w + j + 1, w, i, r, h)]
      nn == [p \in 1..(lead * h * w) |->
               LET slab == (p - 1) \div (h * w)
                   i == ((p - 1) % (h * w)) \div w
                   j == (p - 1) % w
               IN  a.vals[slab * r * c + NearestIdx(i, r, h) * c
                          + NearestIdx(j, c, w) + 1]]
  IN  Arr(newshape, IF interp = "nearest" THEN nn ELSE vp)

\* a plausible slip: PIL sizes are (width, height), numpy shapes (rows, cols)
imresize_swapped(a, size, interp) ==
  IF Len(a.shape) # 2 THEN [err |-> "ValueError", out |-> a]
  ELSE IF interp \notin {"nearest", "bilinear"} THEN [err |-> "KeyError", out |-> a]
  ELSE [err |-> "none", out |-> Resize2D(a, size[2], size[1], interp)]

\* scipy.misc.imresize(arr, size, interp, mode='F'): float image, no rescaling
\* of the values; only 2D arrays make an 'F' image; interp is looked up in a
\* table of names
imresize(a, size, interp) ==
  IF Len(a.shape) # 2 THEN [err |-> "ValueError", out |-> a]
  ELSE IF interp \notin {"nearest", "bilinear"} THEN [err |-> "KeyError", out |-> a]
  ELSE [err |-> "none", out |-> Resize2D(a, size[1], size[2], interp)]

(* ----------------------------- Map.set_data ---------------------------- *)
\* salem.gis.check_crs: a Grid or a projection is returned as it is,
\* anything else (None included) gives None
check_crs(crs) ==
  IF crs # None /\ crs[1].type \in {"Grid", "Proj"} THEN crs ELSE None

\* str.lower on the strings in use
lower(s) ==
  IF s = "Linear" THEN "linear"
  ELSE IF s = "Nearest" THEN "nearest"
  ELSE IF s = ".TIF" THEN ".tif"
  ELSE s

\* a plausible slip: more than 2 dimensions pass
NotTwoD_atleast(shp) == Len(shp) < 2

\* len(shp) != 2
NotTwoD(shp) == Len(shp) # 2

\* a plausible slip: the map's ratio taken as nx / ny
AspectClose_swapped(r, c, ny, nx) ==
  Abs(r * ny - nx * c) * 100000 <= c * (100 * ny + nx)

\* np.isclose(r / c, ny / nx, atol=1e-3), with isclose's default rtol=1e-5:
\* |r/c - ny/nx| <= 1e-3 + 1e-5 * ny/nx, multiplied by 1e5 * c * nx
AspectClose(r, c, ny, nx) ==
  Abs(r * nx - ny * c) * 100000 <= c * (100 * nx + ny)

\* salem.Grid.map_gridded_data(data, crs, interp, out): the data, given on the
\* grid crs, remapped to the map grid.  The source grid is taken to cover the
\* map's extent, so the remap is a resampling; with out, target elements that
\* get no valid value keep the value of out.
map_gridded_data(a, crs, interp, out) ==
  LET g == grid[1]
      nd == Len(a.shape)
      res == Resize2D(a, g.ny, g.nx, IF interp = "nearest" THEN "nearest" ELSE "bilinear")
  IN  IF nd < 2 \/ a.shape[nd - 1] # crs.ny \/ a.shape[nd] # crs.nx
        THEN [err |-> "ValueError", out |-> a]
      ELSE IF interp \notin {"nearest", "linear", "spline"}
        THEN [err |-> "ValueError", out |-> a]
      ELSE IF out = None THEN [err |-> "none", out |-> res]
      ELSE IF out[1].shape # res.shape THEN [err |-> "ValueError", out |-> a]
      ELSE [err |-> "none",
            out |-> Arr(res.shape, [p \in DOMAIN res.vals |->
                      IF res.vals[p] = NaN THEN out[1].vals[p] ELSE res.vals[p]])]

\* the outcome of Map.set_data: the error raised ("none" when it returns) and
\* the value of self.data afterwards
MapSetDataResult(d, crs, interp, overplot) ==
  LET g == grid[1]
      a == masked_invalid(squeeze(d[1]))
      shp == a.shape
      c == check_crs(crs)
      im == imresize(a, <<g.ny, g.nx>>,
                     IF lower(interp) = "linear" THEN "bilinear" ELSE interp)
      mg == map_gridded_data(a, c[1], interp, IF overplot THEN Some(data) ELSE None)
  IN  IF d = None THEN [err |-> "none", data |-> Full(<<g.ny, g.nx>>, 0)]
      ELSE IF NotTwoD(shp) THEN [err |-> "ValueError", data |-> data]
      ELSE IF c = None THEN
             IF shp[2] = 0 THEN [err |-> "ZeroDivisionError", data |-> data]
             ELSE IF ~AspectClose(shp[1], shp[2], g.ny, g.nx)
               THEN [err |-> "ValueError", data |-> data]
             ELSE IF im.err # "none" THEN [err |-> im.err, data |-> data]
             ELSE [err |-> "none", data |-> masked_invalid(atleast_1d(im.out))]
      ELSE IF c[1].type = "Grid" THEN
             IF mg.err # "none" THEN [err |-> mg.err, data |-> data]
             ELSE [err |-> "none", data |-> masked_invalid(atleast_1d(mg.out))]
      ELSE [err |-> "ValueError", data |-> data]

Map_set_data(d, crs, interp, overplot) ==
  LET res == MapSetDataResult(d, crs, interp, overplot)
  IN  /\ kind = "Map"
      /\ data' = res.data
      /\ ret' = Ret("set_data",
                    [data |-> d, crs |-> crs, interp |-> interp, overplot |-> overplot],
                    None, res.err)
      /\ UNCHANGED <<kind, grid, levelVars, mapVars>>

(* --------------------------- relief shading ---------------------------- *)
RECURSIVE SumSeq(_)
SumSeq(s) == IF s = <<>> THEN 0 ELSE Head(s) + SumSeq(Tail(s))

RECURSIVE ISqrtIn(_, _, _)
\* the largest r in lo..hi with r * r <= x (bisection)
ISqrtIn(x, lo, hi) ==
  IF lo >= hi THEN lo
  ELSE LET mid == (lo + hi + 1) \div 2
       IN  IF mid * mid <= x THEN ISqrtIn(x, mid, hi) ELSE ISqrtIn(x, lo, mid - 1)

ISqrt(x) == ISqrtIn(x, 0, Min2(x, 46340))

\* n * np.std(v): the square root of n * sum(v^2) - sum(v)^2, rounded down
NStd(v) ==
  LET n == Len(v)
      s1 == SumSeq(v)
      s2 == SumSeq([i \in DOMAIN v |-> v[i] * v[i]])
  IN  ISqrt(n * s2 - s1 * s1)

\* np.clip(x / (2 * std), -1, 1) in thousandths, for x > 0; a zero std makes
\* the quotient infinite, which clips to 1
ClipRatio(x, n, nstd) ==
  IF nstd = 0 THEN 1000
  ELSE Max2(-1000, Min2(1000, (1000 * x * n) \div (2 * nstd)))

\* 0.4 * sin(0.5 * pi * t) for t in [0, 1], both in thousandths.  The sine is
\* Bhaskara's rational approximation sin(x) ~ 16x(pi-x) / (5pi^2 - 4x(pi-x)),
\* which at x = pi*t/2 is 4t(2-t) / (5 - t(2-t)): exact at 0 and 1, within
\* 0.002 between, and never above 1
ShadeSin(t) ==
  LET u == t * (2000 - t)
  IN  (ShadeAmp * 4 * u) \div (5000000 - u)

\* _shading_base: the outcome [slope, relief_factor] for a slope (a flat
\* sequence of thousandths) or None.  Only the elements > 0 are rewritten.
ShadingBase(sl, rf) ==
  IF sl = None THEN [slope |-> None, relief_factor |-> relief_factor]
  ELSE LET v == sl[1].vals
           nstd == NStd(v)
           out == [i \in DOMAIN v |->
                     IF v[i] > 0 THEN ShadeSin(ClipRatio(v[i], Len(v), nstd))
                     ELSE v[i]]
       IN  [slope |-> Some(Arr(sl[1].shape, out)), relief_factor |-> Some(rf)]

\* integer quotient rounded down, for a divisor of either sign
Quot(a, b) == IF b < 0 THEN (-a) \div (-b) ELSE a \div b

\* np.gradient along one axis of n >= 2 points with spacing h, at position i
\* (0-based) of the line f, in thousandths: one-sided differences at the two
\* ends, central differences inside
Gradient1(f, i, n, h) ==
  IF i = 0 THEN Quot((f[2] - f[1]) * 1000, h)
  ELSE IF i = n - 1 THEN Quot((f[n] - f[n - 1]) * 1000, h)
  ELSE Quot((f[i + 2] - f[i]) * 1000, 2 * h)

\* dx - dy for dy, dx = np.gradient(z, grid.dy, grid.dx) of a (ny, nx) array
GradientSlope(z) ==
  LET g == grid[1]
      ny == z.shape[1]
      nx == z.shape[2]
      row(i) == [j \in 1..nx |-> z.vals[i * nx + j]]
      col(j) == [i \in 1..ny |-> z.vals[(i - 1) * nx + j + 1]]
  IN  Arr(z.shape, [p \in 1..(ny * nx) |->
            LET i == (p - 1) \div nx
                j == (p - 1) % nx
            IN  Gradient1(row(i), j, nx, g.dx) - Gradient1(col(j), i, ny, g.dy)])

\* The outcome of set_topography.  geotiff is None or a file [ext, z]: its
\* extension and, when it can be read, the terrain as map_gridded_data puts
\* it on the map grid (None when the file cannot be read).  With no file the
\* shading is reset and os.path.splitext(None) raises.
TopographyResult(geotiff, rf) ==
  LET reset == ShadingBase(None, DefaultRelief)
      f == geotiff[1]
      z == f.z[1]
      sb == ShadingBase(Some(GradientSlope(z)), rf)
      keep == [slope |-> slope, relief_factor |-> relief_factor]
  IN  IF geotiff = None THEN [err |-> "TypeError", out |-> None, st |-> reset]
      ELSE IF lower(f.ext) # ".tif"
        THEN [err |-> "ValueError", out |-> None, st |-> keep]
      ELSE IF f.z = None THEN [err |-> "IOError", out |-> None, st |-> keep]
      ELSE IF z.shape[1] < 2 \/ z.shape[2] < 2
        THEN [err |-> "ValueError", out |-> None, st |-> keep]
      ELSE [err |-> "none", out |-> Some(z), st |-> sb]

set_topography(geotiff, rf) ==
  LET res == TopographyResult(geotiff, rf)
  IN  /\ kind = "Map"
      /\ slope' = res.st.slope
      /\ relief_factor' = res.st.relief_factor
      /\ ret' = Ret("set_topography", [geotiff |-> geotiff, relief_factor |-> rf],
                    res.out, res.err)
      /\ UNCHANGED <<kind, grid, data, levelVars, _collections, _geometries, _rgb,
                     tickVars>>

(* ------------------------------ overlays ------------------------------- *)
\* A geometry is [type, frame, rings, parts]: frame is "crs" as given by the
\* caller and "map" once reprojected to the map grid; rings are the vertex
\* counts of the exterior and of each interior ring (of the line, of the
\* point); parts are the member geometries of a Multi* or a collection.
Geom(type, frame, rings, parts) ==
  [type |-> type, frame |-> frame, rings |-> rings, parts |-> parts]

\* keyword arguments are a set of <<key, value>> pairs
setdefault(kw, k, v) == IF \E p \in kw : p[1] = k THEN kw ELSE kw \cup {<<k, v>>}

\* 'Multi' in type
HasMulti(type) == type \in {"MultiPolygon", "MultiLineString", "MultiPoint"}

\* 'Polygon' in type
HasPolygon(type) == type \in {"Polygon", "MultiPolygon"}

\* 'LineString' in type
HasLineString(type) == type \in {"LineString", "MultiLineString"}

\* salem.gis.transform_geometry(geometry, crs, to_crs=grid): every coordinate
\* is projected; the type, the rings and the parts stay
transform_geometry(g) ==
  Geom(g.type, "map", g.rings,
       [i \in DOMAIN g.parts |->
          Geom(g.parts[i].type, "map", g.parts[i].rings, g.parts[i].parts)])

\* the outcome of set_geometry; the source projection must be one that
\* Grid.transform understands.  A Multi* geometry is stored part by part,
\* the parts being those of the argument.
GeometryResult(geometry, crs, kw) ==
  LET geom == transform_geometry(geometry[1])
      parts == [i \in DOMAIN geometry[1].parts |-> <<geometry[1].parts[i], kw>>]
  IN  IF geometry = None THEN [err |-> "none", geoms |-> <<>>]
      ELSE IF check_crs(crs) = None THEN [err |-> "ValueError", geoms |-> _geometries]
      ELSE IF HasMulti(geom.type) THEN [err |-> "none", geoms |-> _geometries \o parts]
      ELSE [err |-> "none", geoms |-> Append(_geometries, <<geom, kw>>)]

set_geometry(geometry, crs, kw) ==
  LET res == GeometryResult(geometry, crs, kw)
  IN  /\ kind = "Map"
      /\ Len(res.geoms) + Len(_collections) <= MaxOverlays
      /\ _geometries' = res.geoms
      /\ ret' = Ret("set_geometry", [geometry |-> geometry, crs |-> crs, kwargs |-> kw],
                    None, res.err)
      /\ UNCHANGED <<kind, grid, data, levelVars, _collections, slope,
                     relief_factor, _rgb, tickVars>>

\* the number of patches or lines a shapefile gives: one per part of a Multi*
\* geometry, one per other geometry
RECURSIVE CountItems(_)
CountItems(gs) ==
  IF gs = <<>> THEN 0
  ELSE (IF HasMulti(Head(gs).type) THEN Len(Head(gs).parts) ELSE 1)
       + CountItems(Tail(gs))

\* set_shapefile once the default settings are resolved: shape is None or the
\* geometries salem.utils.read_shapefile_to_grid reads from the file.  A
\* collection is [kind, n, kwargs].
AddShapefile(shape, kw) ==
  LET gs == shape[1]
      geomtype == gs[1].type
  IN  IF shape = None THEN [err |-> "none", colls |-> <<>>]
      ELSE IF Len(gs) = 0 THEN [err |-> "none", colls |-> _collections]
      ELSE IF HasPolygon(geomtype)
        THEN [err |-> "none",
              colls |-> Append(_collections,
                          [kind |-> "PatchCollection", n |-> CountItems(gs),
                           kwargs |-> setdefault(kw, "facecolor", "none")])]
      ELSE IF HasLineString(geomtype)
        THEN [err |-> "none",
              colls |-> Append(_collections,
                          [kind |-> "LineCollection", n |-> CountItems(gs),
                           kwargs |-> kw])]
      ELSE [err |-> "NotImplementedError", colls |-> _collections]

\* the shapefiles shipped with the package, as read on the map grid: oceans
\* and country borders are polygons, rivers are lines
files(name) ==
  IF name = "rivers"
  THEN Some(<<Geom("LineString", "map", <<2>>, <<>>)>>)
  ELSE Some(<<Geom("Polygon", "map", <<4>>, <<>>)>>)

\* the outcome of set_shapefile
ShapefileResult(shape, countries, oceans, rivers, kw) ==
  IF oceans
  THEN AddShapefile(files("oceans"),
         setdefault(setdefault(setdefault(kw, "facecolor", "ocean"),
                               "edgecolor", "none"), "alpha", "1"))
  ELSE IF rivers THEN AddShapefile(files("rivers"), setdefault(kw, "colors", "river"))
  ELSE IF countries THEN AddShapefile(files("world_borders"), {})
  ELSE AddShapefile(shape, kw)

set_shapefile(shape, countries, oceans, rivers, kw) ==
  LET res == ShapefileResult(shape, countries, oceans, rivers, kw)
  IN  /\ kind = "Map"
      /\ Len(res.colls) + Len(_geometries) <= MaxOverlays
      /\ _collections' = res.colls
      /\ ret' = Ret("set_shapefile",
                    [shape |-> shape, countries |-> countries, oceans |-> oceans,
                     rivers |-> rivers, kwargs |-> kw], None, res.err)
      /\ UNCHANGED <<kind, grid, data, levelVars, _geometries, slope,
                     relief_factor, _rgb, tickVars>>

(* ---------------------- longitude / latitude contours ----------------- *)
\* integer quotient rounded up, for a positive divisor
CeilDiv(a, b) == -((-a) \div b)

SeqMin(q) == CHOOSE x \in {q[i] : i \in DOMAIN q} : \A i \in DOMAIN q : x <= q[i]

SeqMax(q) == CHOOSE x \in {q[i] : i \in DOMAIN q} : \A i \in DOMAIN q : x >= q[i]

\* grid.pixcorner_ll_coordinates of a longitude/latitude grid whose first
\* pixel corner is at (0, 0): the longitudes of the nx + 1 corner columns and
\* the latitudes of the ny + 1 corner rows, in degrees
pixcorner_x(g) == [j \in 1..(g.nx + 1) |-> (j - 1) * g.dx]

pixcorner_y(g) == [i \in 1..(g.ny + 1) |-> (i - 1) * g.dy]

\* 'lower' if grid.order == 'll' else 'upper'
origin(g) == IF g.dy > 0 THEN "lower" ELSE "upper"

\* (ceil(min(c / interval)) + arange(floor(max) - ceil(min) + 1)) * interval
tick_levs(c, interval) ==
  LET lo == CeilDiv(SeqMin(c), interval)
      hi == SeqMax(c) \div interval
  IN  [k \in 1..(hi - lo + 1) |-> (lo + k - 1) * interval]

\* the number of decimals of the labels: the first of '4', '3', '2', '1', '0'
\* whose limit 0.001, 0.01, 0.1, 1, 10000 is above the interval, which is '0'
\* for an interval of whole degrees; indexing the empty selection raises
decimals(interval) == IF interval < 10000 THEN Some(0) ELSE None

\* ('{:.' + d + 'f}').format(l) followed by the hemisphere; zero has a label
\* of its own.  A label is [num, decimals, suffix].
xlabel(l, d) ==
  IF l = 0 THEN [num |-> 0, decimals |-> 0, suffix |-> ""]
  ELSE [num |-> l, decimals |-> d, suffix |-> IF l < 0 THEN "W" ELSE "E"]

ylabel(l, d) ==
  IF l = 0 THEN [num |-> 0, decimals |-> 0, suffix |-> "Eq."]
  ELSE [num |-> l, decimals |-> d, suffix |-> IF l < 0 THEN "S" ELSE "N"]

\* the levels that label a tick: those within the first and last corner
InRange(levs, lo, hi) == SelectSeq(levs, LAMBDA l : ~(l > hi \/ l < lo))

\* np.interp(xl, _xx, _xi), in thousandths of a pixel
xpos(g, xl) == ((xl - pixcorner_x(g)[1]) * 1000) \div g.dx

\* np.interp(yl, sort(_yy), _yi), the pixel index running down from ny when
\* the origin is 'upper'
ypos(g, yl) ==
  LET yy == pixcorner_y(g)
      up == ((yl - SeqMin(yy)) * 1000) \div Abs(g.dy)
  IN  IF origin(g) = "upper" THEN g.ny * 1000 - up ELSE up

\* The outcome of set_lonlat_countours on grid g from the attributes old.
\* The contour levels are assigned first; the float format can raise; then
\* _rgb is set to None and the ticks are emptied; the labels and the contour
\* keywords are assigned only with add_tick_labels.
LonLatContours(g, old, interval, xinterval, yinterval, add_tick_labels, kw) ==
  LET xi == IF xinterval = None THEN interval ELSE xinterval[1]
      yi == IF yinterval = None THEN interval ELSE yinterval[1]
      xlevs == tick_levs(pixcorner_x(g), xi)
      ylevs == tick_levs(pixcorner_y(g), yi)
      d == decimals(interval)
      _xx == pixcorner_x(g)
      _yy == pixcorner_y(g)
      xl == InRange(xlevs, _xx[1], _xx[Len(_xx)])
      yl == InRange(ylevs, SeqMin(_yy), SeqMax(_yy))
      kwargs == setdefault(setdefault(kw, "colors", "gray"), "linestyles", "dashed")
  IN  IF d = None
      THEN [old EXCEPT !.err = "IndexError", !.xtick_levs = xlevs, !.ytick_levs = ylevs]
      ELSE IF ~add_tick_labels
      THEN [old EXCEPT !.err = "none", !.xtick_levs = xlevs, !.ytick_levs = ylevs,
                       !._rgb = None, !.xtick_pos = <<>>, !.xtick_val = <<>>,
                       !.ytick_pos = <<>>, !.ytick_val = <<>>]
      ELSE [err |-> "none", xtick_levs |-> xlevs, ytick_levs |-> ylevs, _rgb |-> None,
            xtick_pos |-> [k \in DOMAIN xl |-> xpos(g, xl[k])],
            xtick_val |-> [k \in DOMAIN xl |-> xlabel(xl[k], d[1])],
            ytick_pos |-> [k \in DOMAIN yl |-> ypos(g, yl[k])],
            ytick_val |-> [k \in DOMAIN yl |-> ylabel(yl[k], d[1])],
            ll_contour_kw |-> kwargs]

\* the attributes set_lonlat_countours assigns, before the first call
NoContours ==
  [err |-> "none", xtick_levs |-> <<>>, ytick_levs |-> <<>>, _rgb |-> None,
   xtick_pos |-> <<>>, xtick_val |-> <<>>, ytick_pos |-> <<>>, ytick_val |-> <<>>,
   ll_contour_kw |-> {}]

set_lonlat_countours(interval, xinterval, yinterval, add_tick_labels, kw) ==
  LET old == [err |-> "none", xtick_levs |-> xtick_levs, ytick_levs |-> ytick_levs,
              _rgb |-> _rgb, xtick_pos |-> xtick_pos, xtick_val |-> xtick_val,
              ytick_pos |-> ytick_pos, ytick_val |-> ytick_val,
              ll_contour_kw |-> ll_contour_kw]
      res == LonLatContours(grid[1], old, interval, xinterval, yinterval,
                            add_tick_labels, kw)
  IN  /\ kind = "Map"
      /\ xtick_levs' = res.xtick_levs
      /\ ytick_levs' = res.ytick_levs
      /\ _rgb' = res._rgb
      /\ xtick_pos' = res.xtick_pos
      /\ xtick_val' = res.xtick_val
      /\ ytick_pos' = res.ytick_pos
      /\ ytick_val' = res.ytick_val
      /\ ll_contour_kw' = res.ll_contour_kw
      /\ ret' = Ret("set_lonlat_countours",
                    [interval |-> interval, xinterval |-> xinterval,
                     yinterval |-> yinterval, add_tick_labels |-> add_tick_labels,
                     kwargs |-> kw], None, res.err)
      /\ UNCHANGED <<kind, grid, data, levelVars, _collections, _geometries, slope,
                     relief_factor>>

(* ------------------------------- image --------------------------------- *)
\* cleo.colors.ExtendedNorm(l, ncolors, extend) applied to the value x: the
\* index of the colour of x.  The boundaries make one bin per interval, plus
\* one bin below and above them where extend says so; x falls in the bin of
\* the last boundary not above it, and the bins are spread over the colours.
ExtendedNorm(n, x) ==
  LET l == n.boundaries
      below == IF n.extend \in {"both", "min"} THEN 1 ELSE 0
      above == IF n.extend \in {"both", "max"} THEN 1 ELSE 0
      bins == Len(l.nums) - 1 + below + above
      passed == Cardinality({i \in DOMAIN l.nums : l.nums[i] <= x * l.den})
      bin == Max2(0, Min2(bins - 1, passed - 1 + below))
  IN  IF bins <= 1 THEN 0 ELSE (bin * (n.ncolors - 1)) \div (bins - 1)

\* the colormap: colour k of N is the grey k / (N - 1), 'white' when N = 1,
\* as (r, g, b, alpha) in thousandths; a masked value is transparent
Color(k, N) ==
  LET c == IF N = 1 THEN 1000 ELSE (k * 1000) \div (N - 1)
  IN  <<c, c, c, 1000>>

\* DataLevels.to_rgb: self.cmap(self.norm(self.data)), a new array with a
\* last axis of 4 channels
DataLevels_to_rgb ==
  LET n == norm
  IN  Arr(data.shape \o <<4>>,
          [p \in 1..(4 * Len(data.vals)) |->
             LET x == data.vals[(p - 1) \div 4 + 1]
                 ch == ((p - 1) % 4) + 1
             IN  IF x = NaN THEN 0 ELSE Color(ExtendedNorm(n, x), n.ncolors)[ch]])

\* np.clip(level * v * sens, 0, 1) with level = 1.0 - 0.1 * relief_factor and
\* sens = 1 + 0.7 * relief_factor * slope, all in thousandths
Shade(v, s, rf) ==
  LET level == 1000 - rf \div 10
      sens == 1000 + (7 * rf * s) \div 10000
  IN  Max2(0, Min2(1000, (((level * v) \div 1000) * sens) \div 1000))

\* toplot[:, :, i] = np.clip(level * toplot[:, :, i] * sens, 0, 1) for i in
\* 0, 1, 2 on an image of 3 or 4 channels; a fourth channel is kept
Shaded(img, sl, rf) ==
  LET k == img.shape[3]
  IN  Arr(img.shape,
          [p \in DOMAIN img.vals |->
             IF (p - 1) % k < 3
             THEN Shade(img.vals[p], sl.vals[(p - 1) \div k + 1], rf)
             ELSE img.vals[p]])

\* The outcome of to_rgb: the returned image and the attributes afterwards.
\* A DataLevels colours its data.  A Map takes _rgb itself, when there is
\* one, and colours its data otherwise; with shading it then assigns to the
\* elements of that array, which is the array _rgb refers to.  An image that
\* does not have the shape of the slope cannot take the assignment.
ToRgb ==
  LET manual == kind = "Map" /\ _rgb # None
      toplot == IF manual THEN _rgb[1] ELSE DataLevels_to_rgb
      vm == IF manual THEN _vmin ELSE vminAfterLevels
      vx == IF manual THEN _vmax ELSE vmaxAfterLevels
      shaded == Shaded(toplot, slope[1], relief_factor[1])
  IN  IF kind = "DataLevels" \/ slope = None
      THEN [err |-> "none", out |-> Some(toplot), _rgb |-> _rgb, _vmin |-> vm, _vmax |-> vx]
      ELSE IF Len(toplot.shape) # 3
      THEN [err |-> "IndexError", out |-> None, _rgb |-> _rgb, _vmin |-> vm, _vmax |-> vx]
      ELSE IF SubSeq(toplot.shape, 1, 2) # slope[1].shape
      THEN [err |-> "ValueError", out |-> None, _rgb |-> _rgb, _vmin |-> vm, _vmax |-> vx]
      ELSE [err |-> "none", out |-> Some(shaded),
            _rgb |-> IF manual THEN Some(shaded) ELSE _rgb, _vmin |-> vm, _vmax |-> vx]

set_rgb(img) ==
  /\ kind = "Map"
  /\ _rgb' = img
  /\ ret' = Ret("set_rgb", None, None, "none")
  /\ UNCHANGED <<kind, grid, data, levelVars, _collections, _geometries, slope,
                 relief_factor, tickVars>>

to_rgb ==
  LET res == ToRgb
  IN  /\ _rgb' = res._rgb
      /\ _vmin' = res._vmin
      /\ _vmax' = res._vmax
      /\ ret' = Ret("to_rgb", None, res.out, res.err)
      /\ UNCHANGED <<kind, grid, data, _levels, _nlevels, _extend, cmap, user_vmin,
                     user_vmax, _collections, _geometries, slope, relief_factor,
                     tickVars>>

\* poly.buffer(0) of a valid polygon: a polygon of the same rings
buffer0(g) == Geom("Polygon", g.frame, g.rings, <<>>)

\* plot_polygon(ax, poly, **kwargs): a patch of the polygon, a line along the
\* exterior and a line along each interior ring
plot_polygon(poly, kw) ==
  [patch |-> poly, exterior |-> Head(poly.rings), interiors |-> Tail(poly.rings),
   frame |-> poly.frame,
   edgecolor |-> IF \E q \in kw : q[1] = "edgecolor"
                 THEN (CHOOSE q \in kw : q[1] = "edgecolor")[2] ELSE "black",
   kwargs |-> {q \in kw : q[1] # "edgecolor"}]

\* the keywords of a stored geometry once plot has drawn it: the defaults of
\* its type are written into the stored dictionary
PlotKwargs(g, kw) ==
  IF g.type = "Polygon" THEN setdefault(kw, "facecolor", "none")
  ELSE IF g.type \in {"LineString", "LinearRing"} THEN setdefault(kw, "color", "k")
  ELSE IF g.type = "Point"
    THEN LET k5 == setdefault(setdefault(setdefault(setdefault(setdefault(kw,
                     "marker", "o"), "s", "60"), "c", "w"), "edgecolor", "k"),
                     "linewidths", "1")
         IN  IF \E q \in k5 : q[1] = "markersize"
             THEN {q \in k5 : q[1] \notin {"s", "markersize"}}
                  \cup {<<"s", (CHOOSE q \in k5 : q[1] = "markersize")[2]>>}
             ELSE k5
  ELSE kw

\* what plot draws for the stored geometries, in their order; a geometry of
\* another type is passed over
Drawn(geoms) ==
  [i \in DOMAIN geoms |->
     LET g == geoms[i][1]
         kw == PlotKwargs(g, geoms[i][2])
     IN  IF g.type = "Polygon"
           THEN [call |-> "plot_polygon", arg |-> plot_polygon(buffer0(g), kw)]
         ELSE IF g.type \in {"LineString", "LinearRing"}
           THEN [call |-> "ax.plot", arg |-> [geom |-> g, kwargs |-> kw]]
         ELSE IF g.type = "Point"
           THEN [call |-> "ax.scatter", arg |-> [geom |-> g, kwargs |-> kw]]
         ELSE [call |-> "none", arg |-> [geom |-> g, kwargs |-> kw]]]

\* Map.plot: the image, a copy of each collection, the contours, the
\* geometries and the ticks.  ret.out is what went to the axis.
plot ==
  LET res == ToRgb
      drawn == Drawn(_geometries)
      axis == [image |-> res.out[1],
               collections |-> _collections,
               xcontours |-> xtick_levs,
               ycontours |-> ytick_levs,
               contour_kw |-> ll_contour_kw,
               geometries |-> drawn,
               xticks |-> IF Len(xtick_pos) > 0 \/ Len(ytick_pos) > 0
                          THEN [pos |-> [k \in DOMAIN xtick_pos |-> xtick_pos[k] - 500],
                                val |-> xtick_val]
                          ELSE [pos |-> <<>>, val |-> <<>>],
               yticks |-> IF Len(xtick_pos) > 0 \/ Len(ytick_pos) > 0
                          THEN [pos |-> [k \in DOMAIN ytick_pos |-> ytick_pos[k] - 500],
                                val |-> ytick_val]
                          ELSE [pos |-> <<>>, val |-> <<>>]]
  IN  /\ kind = "Map"
      /\ _rgb' = res._rgb
      /\ _vmin' = res._vmin
      /\ _vmax' = res._vmax
      /\ _geometries' = IF res.err # "none" THEN _geometries
                        ELSE [i \in DOMAIN _geometries |->
                                <<_geometries[i][1],
                                  PlotKwargs(_geometries[i][1], _geometries[i][2])>>]
      /\ ret' = Ret("plot", None, IF res.err # "none" THEN None ELSE Some(axis),
                    res.err)
      /\ UNCHANGED <<kind, grid, data, _levels, _nlevels, _extend, cmap, user_vmin,
                     user_vmax, _collections, slope, relief_factor, tickVars>>

(* --------------------------- construction ------------------------------ *)
Grid(ny, nx, dy, dx) == [type |-> "Grid", ny |-> ny, nx |-> nx, dy |-> dy, dx |-> dx]

\* DataLevels() with no argument
InitDataLevels ==
  /\ kind = "DataLevels"
  /\ grid = None
  /\ data = Arr(<<2>>, <<0, 1>>)
  /\ _levels = None /\ _nlevels = None /\ _vmin = None /\ _vmax = None
  /\ _extend = None
  /\ cmap = 1
  /\ user_vmin = None /\ user_vmax = None
  /\ _collections = <<>> /\ _geometries = <<>>
  /\ slope = None /\ relief_factor = None /\ _rgb = None
  /\ xtick_levs = <<>> /\ ytick_levs = <<>>
  /\ xtick_pos = <<>> /\ xtick_val = <<>> /\ ytick_pos = <<>> /\ ytick_val = <<>>
  /\ ll_contour_kw = {}
  /\ ret = Ret("__init__", None, None, "none")

\* Map(grid, countries=countries)
InitMap(g, countries) ==
  /\ kind = "Map"
  /\ grid = Some(g)
  /\ data = Full(<<g.ny, g.nx>>, 0)
  /\ _levels = None /\ _nlevels = None /\ _vmin = None /\ _vmax = None
  /\ _extend = None
  /\ cmap = 1
  /\ user_vmin = None /\ user_vmax = None
  /\ _collections = IF countries
                    THEN <<[kind |-> "PatchCollection", n |-> 1,
                            kwargs |-> {<<"facecolor", "none">>}]>>
                    ELSE <<>>
  /\ _geometries = <<>>
  /\ slope = None /\ relief_factor = None
  /\ LET c == LonLatContours(g, NoContours, 10, None, None, TRUE, {})
     IN  /\ _rgb = c._rgb
         /\ xtick_levs = c.xtick_levs /\ ytick_levs = c.ytick_levs
         /\ xtick_pos = c.xtick_pos /\ xtick_val = c.xtick_val
         /\ ytick_pos = c.ytick_pos /\ ytick_val = c.ytick_val
         /\ ll_contour_kw = c.ll_contour_kw
  /\ ret = Ret("__init__", None, None, "none")

(* ------------------------------- inputs -------------------------------- *)
Opt(S) == {None} \cup {Some(x) : x \in S}

SmallGrid == Grid(2, 2, 1, 1)

WideGrid == Grid(2, 3, -1, 1)

\* the large grid, one row short of square
BigGrid == Grid(BigN - 1, BigN, 1, 1)

\* explicit levels: the increasing pairs over 0..MaxVal
LevelInputs == {<<a, b>> : a \in 0..MaxVal, b \in 0..MaxVal} \ 
               {<<a, b>> \in (0..MaxVal) \X (0..MaxVal) : a >= b}

\* data for the level configuration: constant, and wider than every level
LevelArrays == {Arr(<<2>>, <<1, 1>>), Arr(<<3>>, <<0, 1, MaxVal + 1>>)}

LevelGrids == {Arr(<<2, 2>>, <<0, 1, 1, MaxVal + 1>>)}

\* arrays of 0, 1, 2 and 3 dimensions, with and without invalid values
DataArrays ==
  { Arr(<<>>, <<1>>), Arr(<<2>>, <<0, 1>>), Arr(<<1, 1>>, <<2>>),
    Arr(<<2, 3>>, <<0, 1, 2, 3, 4, 5>>), Arr(<<2, 3>>, <<0, NaN, 2, 3, 4, 5>>),
    Arr(<<1, 2, 3>>, <<5, 4, 3, 2, 1, 0>>), Arr(<<2, 2>>, <<0, 1, 2, 3>>),
    Arr(<<2, 0>>, <<>>),
    Arr(<<2, 2, 3>>, <<0, 1, 2, 3, 4, 5, 6, 7, 8, 9, 10, 11>>),
    Arr(<<4, 6>>, <<0, 0, 4, 4, 2, 2,  0, 0, 4, 4, 2, 2,
                    8, 8, NaN, NaN, 6, 6,  8, 8, 6, 6, 6, 6>>) }

CrsInputs == Opt({Grid(2, 3, 1, 1), [type |-> "Proj"], [type |-> "junk"]})

InterpInputs == {"nearest", "linear", "spline"}

\* constant arrays whose shape is within one row and column of BigN
BigArrays ==
  {Full(<<r, c>>, v) : r \in (BigN - 1)..(BigN + 1), c \in (BigN - 1)..(BigN + 1),
                       v \in 0..MaxVal}

\* terrains on the map grid with heights 0 and MaxVal
Terrains(g) ==
  {Arr(<<g.ny, g.nx>>, v) : v \in [1..(g.ny * g.nx) -> {0, MaxVal}]}

GeotiffInputs ==
  {None, Some([ext |-> ".png", z |-> None]), Some([ext |-> ".tif", z |-> None])}
  \cup {Some([ext |-> ".tif", z |-> Some(z)]) : z \in Terrains(grid[1])}
  \cup {Some([ext |-> ".TIF", z |-> Some(Full(<<grid[1].ny, grid[1].nx>>, 0))])}

ReliefInputs == {DefaultRelief, 1000}

Polygon == Geom("Polygon", "crs", <<4, 3>>, <<>>)

GeometryInputs ==
  Opt({ Polygon,
        Geom("LineString", "crs", <<2>>, <<>>),
        Geom("Point", "crs", <<1>>, <<>>),
        Geom("MultiPolygon", "crs", <<>>,
             <<Polygon, Geom("Polygon", "crs", <<3>>, <<>>)>>),
        Geom("GeometryCollection", "crs", <<>>, <<Polygon>>) })

ShapefileInputs ==
  Opt({ <<>>,
        <<Geom("Polygon", "map", <<4>>, <<>>),
          Geom("MultiPolygon", "map", <<>>, <<Polygon, Polygon>>)>>,
        <<Geom("LineString", "map", <<2>>, <<>>)>>,
        <<Geom("Point", "map", <<1>>, <<>>)>> })

KwargsInputs == {{}, {<<"facecolor", "red">>}}

\* RGB images (channels in thousandths) of the size of the grid, one dark
\* grey and one of mixed dark colours, and an image of another size
ImageInputs(g) ==
  { Full(<<g.ny, g.nx, 3>>, 20),
    Arr(<<g.ny, g.nx, 3>>, [p \in 1..(3 * g.ny * g.nx) |-> (p % 3) * 10]),
    Full(<<1, 1, 3>>, 20) }

\* no file, and a terrain with one summit
ShadingInputs(g) ==
  { None,
    Some([ext |-> ".tif",
          z |-> Some(Arr(<<g.ny, g.nx>>,
                         [p \in 1..(g.ny * g.nx) |-> IF p = g.ny * g.nx THEN MaxVal ELSE 0]))]) }

\* intervals in whole degrees
IntervalInputs == {1, 10, 10000}

(* --------------------------- specifications ---------------------------- *)
\* the level configuration of a DataLevels and of a Map
InitLevels == InitDataLevels \/ InitMap(SmallGrid, FALSE)

NextLevels ==
  \/ \E d \in Opt(LevelArrays) : DataLevels_set_data(d)
  \/ \E d \in Opt(LevelGrids) : Map_set_data(d, None, "nearest", FALSE)
  \/ \E l \in Opt(LevelInputs) : set_levels(l)
  \/ \E n \in Opt(1..MaxNLevels) : set_nlevels(n)
  \/ \E v \in Opt(0..MaxVal) : set_vmin(v)
  \/ \E v \in Opt(0..MaxVal) : set_vmax(v)
  \/ \E e \in Opt({"both"}) : set_extend(e)
  \/ get_levels
  \/ get_nlevels
  \/ get_vmin
  \/ get_vmax
  \/ get_extend
  \/ get_norm

SpecLevels == InitLevels /\ [][NextLevels]_vars

\* set_plot_params among the setters and the reads of the level configuration
NextReset ==
  \/ \E d \in Opt(LevelArrays) : DataLevels_set_data(d)
  \/ \E d \in Opt(LevelGrids) : Map_set_data(d, None, "nearest", FALSE)
  \/ \E l \in Opt({<<1, MaxVal>>}) : set_levels(l)
  \/ \E n \in Opt({MaxNLevels}) : set_nlevels(n)
  \/ \E v \in Opt({1}) : set_vmin(v)
  \/ \E v \in Opt({MaxVal}) : set_vmax(v)
  \/ \E e \in Opt({"both"}) : set_extend(e)
  \/ \E l \in Opt({<<0, MaxVal>>}), n \in Opt({MaxNLevels}), vm \in Opt({1}),
        vx \in Opt({1}), e \in Opt({"both"}) : set_plot_params(l, n, vm, vx, e)
  \/ get_levels
  \/ get_extend
  \/ get_norm

SpecReset == InitLevels /\ [][NextReset]_vars

\* the colorbar and the image of a DataLevels
\* explicit levels 1, 2, ..., as many as make the colorbar continuous
LongLevels == [i \in 1..ContinuousFrom |-> i]

NextColorbar ==
  \/ \E d \in Opt(LevelArrays) : DataLevels_set_data(d)
  \/ \E l \in Opt({<<0, MaxVal>>, LongLevels}) : set_levels(l)
  \/ \E n \in Opt({MaxNLevels, ContinuousFrom - 1, ContinuousFrom, ContinuousFrom + 1}) :
        set_nlevels(n)
  \/ \E v \in Opt({0}) : set_vmin(v)
  \/ \E v \in Opt({MaxVal}) : set_vmax(v)
  \/ \E e \in Opt({"both"}) : set_extend(e)
  \/ \E cm \in Opt({2}) : set_cmap(cm)
  \/ \E kw \in {{}, {<<"orientation", "vertical">>}} : colorbarbase(kw)
  \/ to_rgb

SpecColorbar == InitDataLevels /\ [][NextColorbar]_vars

\* set_data of a DataLevels and of a Map on the 2 x 3 grid
InitData == InitDataLevels \/ InitMap(WideGrid, FALSE)

NextData ==
  \/ \E d \in Opt(DataArrays) : DataLevels_set_data(d)
  \/ \E d \in Opt(DataArrays), crs \in CrsInputs, interp \in InterpInputs,
        overplot \in BOOLEAN : Map_set_data(d, crs, interp, overplot)

SpecData == InitData /\ [][NextData]_vars

\* Map.set_data without crs on the large grid
InitAspect == InitMap(BigGrid, FALSE)

NextAspect ==
  \E d \in Opt(BigArrays \cup {Arr(<<2, 0>>, <<>>), Arr(<<2>>, <<0, 1>>)}),
     interp \in {"nearest", "spline"} :
     Map_set_data(d, None, interp, FALSE)

SpecAspect == InitAspect /\ [][NextAspect]_vars

\* relief shading of a Map
InitShade == \E g \in {SmallGrid, WideGrid} : InitMap(g, FALSE)

NextShade ==
  \E geotiff \in GeotiffInputs, rf \in ReliefInputs : set_topography(geotiff, rf)

SpecShade == InitShade /\ [][NextShade]_vars

\* the overlays of a Map
InitOverlay == \E countries \in BOOLEAN : InitMap(SmallGrid, countries)

NextOverlay ==
  \/ \E g \in GeometryInputs, crs \in Opt({[type |-> "Proj"]}), kw \in KwargsInputs :
        set_geometry(g, crs, kw)
  \/ \E shape \in ShapefileInputs, kw \in KwargsInputs :
        set_shapefile(shape, FALSE, FALSE, FALSE, kw)
  \/ \E flag \in {"countries", "oceans", "rivers"}, kw \in KwargsInputs :
        set_shapefile(None, flag = "countries", flag = "oceans", flag = "rivers", kw)
  \/ plot

SpecOverlay == InitOverlay /\ [][NextOverlay]_vars

\* the image of a Map: manual image, shading, contours
InitImage == InitMap(SmallGrid, FALSE)

NextImage ==
  \/ \E img \in Opt(ImageInputs(grid[1])) : set_rgb(img)
  \/ \E geotiff \in ShadingInputs(grid[1]) : set_topography(geotiff, DefaultRelief)
  \/ \E interval \in IntervalInputs, add_tick_labels \in BOOLEAN :
        set_lonlat_countours(interval, None, None, add_tick_labels, {})
  \/ \E d \in Opt({Full(<<grid[1].ny, grid[1].nx>>, 1)}) :
        Map_set_data(d, None, "nearest", FALSE)
  \/ to_rgb
  \/ plot

SpecImage == InitImage /\ [][NextImage]_vars

\* every operation, from every construction
Init == InitLevels \/ InitData \/ InitShade \/ InitOverlay \/ InitImage

Next ==
  \/ NextLevels \/ NextData \/ NextShade \/ NextOverlay
  \/ NextReset \/ NextColorbar \/ NextImage

Spec == Init /\ [][Next]_vars

(* ------------------------------- claims -------------------------------- *)
Last(q) == q[Len(q)]

\* the shape of a set_data argument once its axes of length 1 are dropped
SqueezedShape(d) == squeeze(d[1]).shape

\* C1: while explicit (increasing) levels are set, the vmin property is the
\* first level and the vmax property is the last level, in every state.
C1_LevelsBoundVminVmax ==
  _levels # None => vmin = Head(_levels[1]) /\ vmax = Last(_levels[1])

\* C2: when the user set no extend policy, the extend property is the
\* classification of the data against the configured bounds (first and last
\* level when levels are set, vmin and vmax otherwise): 'both' iff the data
\* exceed both bounds, 'max' / 'min' iff only the one, 'neither' otherwise.
C2_ExtendClassifiesData ==
  LET lo == IF _levels # None THEN Head(_levels[1]) ELSE vmin
      hi == IF _levels # None THEN Last(_levels[1]) ELSE vmax
      above == np_max(data) > hi
      below == np_min(data) < lo
  IN  _extend = None =>
        /\ extend \in {"both", "max", "min", "neither"}
        /\ extend = "both" <=> (above /\ below)
        /\ extend = "max" <=> (above /\ ~below)
        /\ extend = "min" <=> (below /\ ~above)
        /\ extend = "neither" <=> (~above /\ ~below)

\* C3: with no explicit levels set and no value given to set_vmin (set_vmax)
\* by the user, the vmin (vmax) property is the minimum (maximum) of the data.
C3_VminVmaxFromData ==
  _levels = None =>
    /\ user_vmin = None => vmin = np_min(data)
    /\ user_vmax = None => vmax = np_max(data)

\* C4: the sequence the levels property returns is monotonically increasing
\* in every state (stated in its weakest reading: it never decreases).
C4_LevelsMonotonic ==
  \A i \in DOMAIN levels.nums : \A j \in DOMAIN levels.nums :
    i < j => levels.nums[i] <= levels.nums[j]

\* the call that led to the next state was Map.set_data with crs=None and 2D
\* data of at least one column
C5_Call ==
  /\ kind = "Map"
  /\ ret'.op = "set_data"
  /\ ret'.arg.data # None
  /\ ret'.arg.crs = None
  /\ Len(SqueezedShape(ret'.arg.data)) = 2
  /\ SqueezedShape(ret'.arg.data)[2] >= 1

\* C5 as stated: Map.set_data with crs=None and 2D data whose rows/cols is not
\* the grid's ny/nx raises ValueError and leaves the stored data as it was.
C5_AnyMismatchRaises ==
  [][(/\ C5_Call
      /\ SqueezedShape(ret'.arg.data)[1] * grid[1].nx
           # grid[1].ny * SqueezedShape(ret'.arg.data)[2])
     => (ret'.err = "ValueError" /\ data' = data)]_vars

\* rows/cols and ny/nx differ by more than 1e-3 + 1e-5 * ny/nx
C5_BeyondTolerance(r, c, ny, nx) ==
  Abs(r * nx - ny * c) * 100000 > c * (100 * nx + ny)

\* C5, amended: the call raises ValueError and leaves the stored data as it
\* was when rows/cols differs from ny/nx by more than the tolerance of the
\* check, 1e-3 + 1e-5 * ny/nx.
C5_MismatchBeyondToleranceRaises ==
  [][(/\ C5_Call
      /\ C5_BeyondTolerance(SqueezedShape(ret'.arg.data)[1],
                            SqueezedShape(ret'.arg.data)[2],
                            grid[1].ny, grid[1].nx))
     => (ret'.err = "ValueError" /\ data' = data)]_vars

\* an array two rows taller than the grid was rejected while data set by an
\* earlier call is stored
C5_Witness ==
  /\ kind = "Map"
  /\ ret.op = "set_data"
  /\ ret.err = "ValueError"
  /\ ret.arg.data # None
  /\ ret.arg.crs = None
  /\ SqueezedShape(ret.arg.data) = <<grid[1].ny + 2, grid[1].nx>>
  /\ data.shape = <<grid[1].ny, grid[1].nx>>
  /\ np_max(data) > 0

\* C6 as stated: set_data of a DataLevels and of a Map raises on every
\* non-None input that is not 2D once its axes of length 1 are dropped, and
\* leaves the stored data as it was.
C6_NonTwoDRejected ==
  [][(/\ ret'.op = "set_data"
      /\ ret'.arg.data # None
      /\ Len(SqueezedShape(ret'.arg.data)) # 2)
     => (ret'.err # "none" /\ data' = data)]_vars

\* C6, amended: Map.set_data raises ValueError on every such input and leaves
\* the stored data as it was.
C6_MapRejectsNonTwoD ==
  [][(/\ kind = "Map"
      /\ ret'.op = "set_data"
      /\ ret'.arg.data # None
      /\ Len(SqueezedShape(ret'.arg.data)) # 2)
     => (ret'.err = "ValueError" /\ data' = data)]_vars

\* a Map holding data set earlier has rejected a 3D array given with a grid
C6_Witness ==
  /\ kind = "Map"
  /\ ret.op = "set_data"
  /\ ret.err = "ValueError"
  /\ ret.arg.data # None
  /\ Len(SqueezedShape(ret.arg.data)) = 3
  /\ ret.arg.crs # None
  /\ np_max(data) > 0

\* C7: a set_topography call that raises leaves slope and relief_factor as
\* they were before the call.
C7_FailedTopographyKeepsShading ==
  [][(ret'.op = "set_topography" /\ ret'.err # "none")
     => (slope' = slope /\ relief_factor' = relief_factor)]_vars

\* C8: a shapefile whose geometry type is neither Polygon nor LineString, and
\* a geometry that is none of Polygon, LineString, LinearRing, Point (nor a
\* Multi* of them), raises NotImplementedError and leaves both overlay lists
\* as they were.
C8_UnknownGeometryRaises ==
  [][(\/ /\ ret'.op = "set_geometry"
         /\ ret'.arg.geometry # None
         /\ ret'.arg.geometry[1].type \notin
              {"Polygon", "LineString", "LinearRing", "Point",
               "MultiPolygon", "MultiLineString", "MultiPoint"}
      \/ /\ ret'.op = "set_shapefile"
         /\ ~ret'.arg.countries /\ ~ret'.arg.oceans /\ ~ret'.arg.rivers
         /\ ret'.arg.shape # None
         /\ ret'.arg.shape[1] # <<>>
         /\ ret'.arg.shape[1][1].type \notin
              {"Polygon", "MultiPolygon", "LineString", "MultiLineString"})
     => (/\ ret'.err = "NotImplementedError"
         /\ _collections' = _collections
         /\ _geometries' = _geometries)]_vars

\* C9: every element of the stored shading factor is at most 0.4 in absolute
\* value.
C9_ShadingBounded ==
  slope # None => \A i \in DOMAIN slope[1].vals : Abs(slope[1].vals[i]) <= ShadeAmp

C11_PolygonRoundTrip ==
  [][/\ (/\ ret'.op = "set_geometry"
         /\ ret'.err = "none"
         /\ ret'.arg.geometry # None
         /\ ret'.arg.geometry[1].type \in {"Polygon", "MultiPolygon"})
        => LET geom == transform_geometry(ret'.arg.geometry[1])
               kw == ret'.arg.kwargs
           IN  _geometries' = _geometries \o
                 (IF HasMulti(geom.type)
                  THEN [i \in DOMAIN geom.parts |-> <<geom.parts[i], kw>>]
                  ELSE <<(<<geom, kw>>)>>)
     /\ (ret'.op = "plot" /\ ret'.err = "none")
        => \A i \in DOMAIN _geometries :
             _geometries[i][1].type = "Polygon"
             => LET d == ret'.out[1].geometries[i]
                IN  /\ d.call = "plot_polygon"
                    /\ d.arg.exterior = Head(_geometries[i][1].rings)
                    /\ d.arg.interiors = Tail(_geometries[i][1].rings)
                    /\ d.arg.frame = "map"]_vars

C13_ResetDefaults ==
  [][(/\ ret'.op = "set_plot_params"
      /\ ret'.arg = [levels |-> None, nlevels |-> None, vmin |-> None,
                     vmax |-> None, extend |-> None])
     => (/\ levels' = linspace(np_min(data), np_max(data), 8)
         /\ vmin' = np_min(data)
         /\ vmax' = np_max(data)
         /\ extend' = "neither"
         /\ data' = data
         /\ cmap' = cmap)]_vars

\* set_plot_params() was called on a Map whose data go beyond every level a
\* user can have set
C13_Witness ==
  /\ kind = "Map"
  /\ ret.op = "set_plot_params"
  /\ ret.arg = [levels |-> None, nlevels |-> None, vmin |-> None,
                vmax |-> None, extend |-> None]
  /\ np_max(data) = MaxVal + 1
  /\ Len(levels.nums) = DefaultNLevels

\* C14: to_rgb and plot leave the data, the manual image and the shading of
\* the Map as they are, and to_rgb called twice in a row, with no other call
\* in between, returns the same image both times.
C14_ToRgbStateless ==
  [][/\ (kind = "Map" /\ ret'.op \in {"to_rgb", "plot"})
        => (/\ data' = data
            /\ _rgb' = _rgb
            /\ slope' = slope
            /\ relief_factor' = relief_factor)
     /\ (kind = "Map" /\ ret.op = "to_rgb" /\ ret.err = "none" /\ ret'.op = "to_rgb")
        => ret'.out = ret.out]_vars

\* C15: set_lonlat_countours leaves the data, the manual image, the shading,
\* the level and colour configuration and the overlay lists as they are.
C15_ContoursKeepTheRest ==
  [][ret'.op = "set_lonlat_countours"
     => (/\ data' = data
         /\ _rgb' = _rgb
         /\ slope' = slope
         /\ relief_factor' = relief_factor
         /\ <<_levels, _nlevels, _vmin, _vmax, _extend, cmap>>'
              = <<_levels, _nlevels, _vmin, _vmax, _extend, cmap>>
         /\ _collections' = _collections
         /\ _geometries' = _geometries)]_vars

====
